---- MODULE Spec2Model ----
(***************************************************************************)
(* Model of the booking flow of availo-app: the Timetable component's      *)
(* generateTimeSlots (availability resolver + slot generator) and the      *)
(* BookingPage wizard that consumes it, over the hosted data store.        *)
(*                                                                         *)
(* Representation                                                          *)
(*   - a calendar date is a day number; its weekday is date % 7 (0=Sunday) *)
(*   - a JS Date is a number of seconds: date * 86400 + seconds of the day *)
(*   - a stored 'HH:mm:ss' value is the tuple <<h, m, s>>                  *)
(*   - an 'HH:mm' label is the tuple of its four digits                    *)
(*   - a nullable value is a sequence of length 0 (null) or 1              *)
(***************************************************************************)
EXTENDS Integers, Sequences, FiniteSets, TLC

VARIABLES
  \* ---- data store (tables) ----
  employee,               \* set of [emp_id, emp_fname, emp_lname]
  employee_service,       \* set of <<emp_id, serv_id>>
  employee_availability,  \* sequence of [emp_id, avail_day, start_time, end_time]
  appointment,            \* sequence of [app_datetime, cust_phone, bus_id, serv_id, emp_id]
  customer,               \* sequence of [cust_fname, cust_lname, cust_email, cust_phone]
  \* ---- wall clock ----
  now,                    \* [date, sec]
  \* ---- BookingPage state, per browser session ----
  currentStep, selectedService, selectedDate, selectedSlot, customerData,
  loading,                \* BookingPage's loading flag
  confirm,                \* in-flight handleBookingConfirm (nullable closure)
  \* ---- Timetable state, per browser session ----
  timeSlots, ttLoading,
  gen,                    \* sequence of in-flight generateTimeSlots invocations
  \* ---- Employees page (the business owner's browser) ----
  editingEmployee,        \* nullable: the employee loaded into the edit panel
  updating,               \* in-flight handleUpdate (nullable closure)
  \* ---- toaster: the latest toast shown in the session ----
  toast,
  \* ---- history: what the latest finished generateTimeSlots run read ----
  lastRun

dbVars   == <<employee, employee_service, employee_availability, appointment, customer>>
pageVars == <<currentStep, selectedService, selectedDate, selectedSlot, customerData,
              loading, confirm>>
ttVars   == <<timeSlots, ttLoading, gen>>
empVars  == <<editingEmployee, updating>>
vars     == <<dbVars, now, pageVars, ttVars, empVars, toast, lastRun>>

\* ------------------------------------------------------------------------
\* Bounds of the model
\* ------------------------------------------------------------------------
MaxRows     == 2   \* availability rows in the store
MaxAppts    == 2   \* appointment rows in the store
MaxInFlight == 2   \* overlapping generateTimeSlots invocations per session
MaxCustomers == 2  \* customer rows in the store

Sessions == {1, 2}

None    == <<>>
Some(x) == <<x>>
Val(o)  == o[1]

SecPerDay == 24 * 3600

\* ------------------------------------------------------------------------
\* date-fns / Date helpers
\* ------------------------------------------------------------------------
NaN == -1

isNaN(t) == t = NaN

\* Date.prototype.getDay: 0 = Sunday .. 6 = Saturday
getDay(date) == date % 7

\* Number.prototype.toString for a weekday index
DayToString(n) ==
  CASE n = 0 -> "0" [] n = 1 -> "1" [] n = 2 -> "2" [] n = 3 -> "3"
    [] n = 4 -> "4" [] n = 5 -> "5" [] n = 6 -> "6"

\* parse(str, 'HH:mm:ss', new Date()): the reference date's day at h:m:s,
\* Invalid Date when a field is out of range
parse(t, refDate) ==
  IF Len(t) = 3 /\ t[1] \in 0..23 /\ t[2] \in 0..59 /\ t[3] \in 0..59
  THEN refDate * SecPerDay + t[1] * 3600 + t[2] * 60 + t[3]
  ELSE NaN

addMinutes(t, amount) == t + amount * 60

isBefore(a, b) == a < b

getHours(t)   == (t % SecPerDay) \div 3600
getMinutes(t) == ((t % SecPerDay) % 3600) \div 60

\* format(date, 'HH:mm'): the four digits of the zero-padded label
formatHHmm(t) ==
  <<getHours(t) \div 10, getHours(t) % 10, getMinutes(t) \div 10, getMinutes(t) % 10>>

\* new Date(selectedDate); setHours(h, m, 0, 0): selectedDate is a calendar day
setHours(date, h, m) == date * SecPerDay + h * 3600 + m * 60

\* new Date(): the current instant
NowDate(clock) == clock.date * SecPerDay + clock.sec

\* new Date(app_datetime): the local instant of a stored date-time; off is the
\* embedded UTC offset minus the browser's, in minutes (0 when none is embedded)
NewDate(dt) == dt.date * SecPerDay + dt.h * 3600 + dt.m * 60 + dt.s - dt.off * 60

\* String.prototype.localeCompare on two 'HH:mm' labels: -1, 0, 1
RECURSIVE localeCompareFrom(_, _, _)
localeCompareFrom(a, b, i) ==
  IF i > Len(a) THEN 0
  ELSE IF a[i] < b[i] THEN -1
  ELSE IF a[i] > b[i] THEN 1
  ELSE localeCompareFrom(a, b, i + 1)

localeCompare(a, b) == localeCompareFrom(a, b, 1)

\* ------------------------------------------------------------------------
\* Employees page: day normalisation (used when employees are listed and edited)
\* ------------------------------------------------------------------------
weekdayNames == <<"Sunday", "Monday", "Tuesday", "Wednesday", "Thursday", "Friday", "Saturday">>

\* Number(s) for the strings matching /^\d+$/ that the model uses
NumericStrings ==
  [s \in {"0", "1", "2", "3", "4", "5", "6", "7", "8", "9", "07", "08", "10"} |->
     CASE s = "0" -> 0 [] s = "1" -> 1 [] s = "2" -> 2 [] s = "3" -> 3 [] s = "4" -> 4
       [] s = "5" -> 5 [] s = "6" -> 6 [] s = "7" -> 7 [] s = "8" -> 8 [] s = "9" -> 9
       [] s = "07" -> 7 [] s = "08" -> 8 [] s = "10" -> 10]

\* String(n) for a small number
NumToString(n) ==
  CASE n = 0 -> "0" [] n = 1 -> "1" [] n = 2 -> "2" [] n = 3 -> "3" [] n = 4 -> "4"
    [] n = 5 -> "5" [] n = 6 -> "6" [] n = 7 -> "7" [] n = 8 -> "8" [] n = 9 -> "9"
    [] n = 10 -> "10"

\* String.prototype.trim on the padded spellings the model uses
trim(s) ==
  CASE s = " 1"      -> "1"
    [] s = "Monday " -> "Monday"
    [] s = " xyz "   -> "xyz"
    [] OTHER -> s

\* String.prototype.toLowerCase on the spellings of weekday names the model uses
toLowerCase(s) ==
  CASE s \in {"Sunday", "SUNDAY"}       -> "sunday"
    [] s \in {"Monday", "MONDAY"}       -> "monday"
    [] s \in {"Tuesday", "TUESDAY"}     -> "tuesday"
    [] s \in {"Wednesday", "WEDNESDAY"} -> "wednesday"
    [] s \in {"Thursday", "THURSDAY"}   -> "thursday"
    [] s \in {"Friday", "FRIDAY"}       -> "friday"
    [] s \in {"Saturday", "SATURDAY"}   -> "saturday"
    [] OTHER -> s

\* weekdayNames.findIndex(w => w.toLowerCase() === s.toLowerCase()), 0-based, -1 if none
findWeekday(s) ==
  IF \E k \in 1..7 : toLowerCase(weekdayNames[k]) = toLowerCase(s)
  THEN (CHOOSE k \in 1..7 : toLowerCase(weekdayNames[k]) = toLowerCase(s)) - 1
  ELSE -1

normalizeDayIndex(raw) ==
  LET s == trim(raw)
  IN IF s \in DOMAIN NumericStrings
     THEN LET n == NumericStrings[s]
          IN IF n >= 1 /\ n <= 7 THEN NumToString(n % 7) ELSE NumToString(n)
     ELSE IF findWeekday(s) >= 0 THEN NumToString(findWeekday(s))
     ELSE s

\* ------------------------------------------------------------------------
\* generateTimeSlots: the queries
\* ------------------------------------------------------------------------

\* the nested employee ( emp_id, emp_fname, emp_lname, employee_service ( serv_id ) )
\* of an availability row: null when the join finds no employee
JoinEmployee(emp_id) ==
  IF \E e \in employee : e.emp_id = emp_id
  THEN LET e == CHOOSE x \in employee : x.emp_id = emp_id
       IN Some([emp_id |-> e.emp_id, emp_fname |-> e.emp_fname, emp_lname |-> e.emp_lname,
                employee_service |-> {l[2] : l \in {k \in employee_service : k[1] = emp_id}}])
  ELSE None

JoinRow(r) ==
  [avail_day |-> r.avail_day, start_time |-> r.start_time, end_time |-> r.end_time,
   employee |-> JoinEmployee(r.emp_id)]

RECURSIVE MapJoin(_)
MapJoin(rows) ==
  IF rows = <<>> THEN <<>> ELSE <<JoinRow(Head(rows))>> \o MapJoin(Tail(rows))

\* .from('employee_availability').select(...).eq('avail_day', dayOfWeek)
AvailDayMatches(avail_day, dayOfWeek) == avail_day = dayOfWeek

AvailabilityQuery(dayOfWeek) ==
  MapJoin(SelectSeq(employee_availability,
                    LAMBDA r : AvailDayMatches(r.avail_day, dayOfWeek)))

\* .from('appointment').select('app_datetime, emp_id')
\*   .gte('app_datetime', `${dateStr} 00:00:00`).lt('app_datetime', `${dateStr} 23:59:59`)
InDateRange(dt, date) ==
  /\ dt.date = date
  /\ dt.h * 3600 + dt.m * 60 + dt.s < 23 * 3600 + 59 * 60 + 59

AppointmentQuery(date) ==
  SelectSeq(appointment, LAMBDA a : InDateRange(a.app_datetime, date))

\* ------------------------------------------------------------------------
\* generateTimeSlots: the computation
\* ------------------------------------------------------------------------

\* mutant: the filter keeps every row that has an employee, linked or not
IsEligibleAnyService(avail, service) == avail.employee # None

\* (availability || []).filter(avail => emp && services.some(es => es.serv_id === serv_id))
IsEligible(avail, service) ==
  /\ avail.employee # None
  /\ service.serv_id \in Val(avail.employee).employee_service

eligibleEmployees(availability, service) ==
  SelectSeq(availability, LAMBDA avail : IsEligible(avail, service))

\* new Set(appointmentsArr.map(apt => format(new Date(apt.app_datetime), 'HH:mm')))
bookedSlots(appointmentsArr) ==
  {formatHHmm(NewDate(appointmentsArr[i].app_datetime)) : i \in 1..Len(appointmentsArr)}

\* Number(selectedService?.serv_min_duration || 30)
serviceDuration(service) ==
  IF service.serv_min_duration = 0 THEN 30 ELSE service.serv_min_duration

employeeNameOf(emp) == <<emp.emp_fname, emp.emp_lname>>

\* mutant: available = !isPast (the booked set is not consulted)
MakeSlotIgnoresBooked(currentTime, avail, date, booked, clock) ==
  LET timeStr      == formatHHmm(currentTime)
      slotDateTime == setHours(date, getHours(currentTime), getMinutes(currentTime))
      isPast       == slotDateTime < NowDate(clock)
      emp          == Val(avail.employee)
  IN [time |-> timeStr, available |-> ~isPast,
      employeeId |-> emp.emp_id, employeeName |-> <<emp.emp_fname, emp.emp_lname>>]

\* mutant: available = !isBooked (the slot is not compared with the current moment)
MakeSlotIgnoresPast(currentTime, avail, date, booked, clock) ==
  LET timeStr == formatHHmm(currentTime)
      emp     == Val(avail.employee)
  IN [time |-> timeStr, available |-> timeStr \notin booked,
      employeeId |-> emp.emp_id, employeeName |-> <<emp.emp_fname, emp.emp_lname>>]

\* slots.push({ time, available: !isPast && !isBooked, employeeId, employeeName })
MakeSlot(currentTime, avail, date, booked, clock) ==
  LET timeStr      == formatHHmm(currentTime)
      slotDateTime == setHours(date, getHours(currentTime), getMinutes(currentTime))
      isPast       == slotDateTime < NowDate(clock)
      isBooked     == timeStr \in booked
      emp          == Val(avail.employee)
  IN [time |-> timeStr, available |-> ~isPast /\ ~isBooked,
      employeeId |-> emp.emp_id, employeeName |-> employeeNameOf(emp)]

\* mutant: the loop also emits a slot that starts at the end of the window
LoopContinuesInclusive(currentTime, endTime) == ~isBefore(endTime, currentTime)

\* while (isBefore(currentTime, endTime)) { push; currentTime = addMinutes(...) }
LoopContinues(currentTime, endTime) == isBefore(currentTime, endTime)

\* mutant: a booked time is left out of the list
RECURSIVE SlotLoopDropsBooked(_, _, _, _, _, _, _)
SlotLoopDropsBooked(currentTime, endTime, avail, date, duration, booked, clock) ==
  IF LoopContinues(currentTime, endTime)
  THEN (IF formatHHmm(currentTime) \in booked THEN <<>>
        ELSE <<MakeSlot(currentTime, avail, date, booked, clock)>>)
       \o SlotLoopDropsBooked(addMinutes(currentTime, duration), endTime, avail, date,
                              duration, booked, clock)
  ELSE <<>>

RECURSIVE SlotLoop(_, _, _, _, _, _, _)
SlotLoop(currentTime, endTime, avail, date, duration, booked, clock) ==
  IF LoopContinues(currentTime, endTime)
  THEN <<MakeSlot(currentTime, avail, date, booked, clock)>>
       \o SlotLoop(addMinutes(currentTime, duration), endTime, avail, date,
                   duration, booked, clock)
  ELSE <<>>

\* The while loop never exits: its condition holds and an iteration does not move
\* currentTime forward (addMinutes by a duration that is not positive), so the
\* condition holds again, with an earlier or equal currentTime, at every later test.
LoopDiverges(currentTime, endTime, duration) ==
  /\ LoopContinues(currentTime, endTime)
  /\ ~isBefore(currentTime, addMinutes(currentTime, duration))

\* eligibleEmployees.forEach reaches a row whose loop never exits
Diverges(eligible, duration, clock) ==
  \E i \in 1..Len(eligible) :
    LET startTime == parse(eligible[i].start_time, clock.date)
        endTime   == parse(eligible[i].end_time, clock.date)
    IN /\ ~isNaN(startTime) /\ ~isNaN(endTime)
       /\ LoopDiverges(startTime, endTime, duration)

\* the body of eligibleEmployees.forEach for one availability row
RowSlots(avail, date, duration, booked, clock) ==
  LET startTime == parse(avail.start_time, clock.date)
      endTime   == parse(avail.end_time, clock.date)
  IN IF isNaN(startTime) \/ isNaN(endTime) THEN <<>>
     ELSE SlotLoop(startTime, endTime, avail, date, duration, booked, clock)

\* mutant: a row with an unparseable time ends the generation
RECURSIVE AllSlotsStopAtBadRow(_, _, _, _, _)
AllSlotsStopAtBadRow(eligible, date, duration, booked, clock) ==
  IF eligible = <<>> THEN <<>>
  ELSE IF \/ isNaN(parse(Head(eligible).start_time, clock.date))
          \/ isNaN(parse(Head(eligible).end_time, clock.date))
       THEN <<>>
       ELSE RowSlots(Head(eligible), date, duration, booked, clock)
            \o AllSlotsStopAtBadRow(Tail(eligible), date, duration, booked, clock)

RECURSIVE AllSlots(_, _, _, _, _)
AllSlots(eligible, date, duration, booked, clock) ==
  IF eligible = <<>> THEN <<>>
  ELSE RowSlots(Head(eligible), date, duration, booked, clock)
       \o AllSlots(Tail(eligible), date, duration, booked, clock)

\* uniqueMap: keep the first slot of every `${time}-${employeeId}` key
SlotKey(s) == <<s.time, s.employeeId>>

\* mutant: no de-duplication
uniqueMapKeepsAll(slots, seen) == slots

RECURSIVE uniqueMap(_, _)
uniqueMap(slots, seen) ==
  IF slots = <<>> THEN <<>>
  ELSE IF SlotKey(Head(slots)) \in seen THEN uniqueMap(Tail(slots), seen)
  ELSE <<Head(slots)>> \o uniqueMap(Tail(slots), seen \cup {SlotKey(Head(slots))})

\* Array.prototype.sort((a, b) => a.time.localeCompare(b.time)): a stable sort
RECURSIVE InsertSorted(_, _)
InsertSorted(sorted, s) ==
  IF sorted = <<>> THEN <<s>>
  ELSE IF localeCompare(s.time, sorted[Len(sorted)].time) >= 0 THEN Append(sorted, s)
  ELSE Append(InsertSorted(SubSeq(sorted, 1, Len(sorted) - 1), s), sorted[Len(sorted)])

\* mutant: the list is left in generation order
SortByTimeKeepsOrder(slots) == slots

RECURSIVE SortByTime(_)
SortByTime(slots) ==
  IF slots = <<>> THEN <<>>
  ELSE InsertSorted(SortByTime(SubSeq(slots, 1, Len(slots) - 1)), slots[Len(slots)])

uniqueSlots(slots) == SortByTime(uniqueMap(slots, {}))

\* lines 122-209 once both reads are in hand
ComputeSlots(date, service, availability, appointmentsArr, clock) ==
  uniqueSlots(AllSlots(eligibleEmployees(availability, service), date,
                       serviceDuration(service), bookedSlots(appointmentsArr), clock))

\* ------------------------------------------------------------------------
\* Timetable: mounting, the regenerate effect and the steps of generateTimeSlots
\* ------------------------------------------------------------------------

\* BookingPage renders <Timetable> only at the datetime step with a service and a date
Mounted(step, service, date) == step = "datetime" /\ service # None /\ date # None

NewInvocation(date, service) ==
  [pc |-> "avail", live |-> TRUE, selectedDate |-> date, selectedService |-> service,
   availability |-> <<>>]

\* the invocations of an unmounted Timetable keep running; their setState calls are no-ops
Orphaned(invs) == [i \in 1..Len(invs) |-> [invs[i] EXCEPT !.live = FALSE]]

RemoveAt(seq, i) == SubSeq(seq, 1, i - 1) \o SubSeq(seq, i + 1, Len(seq))

\* The render that follows a BookingPage state change to (step, service, date):
\* mount (fresh state) or re-run the effect and start generateTimeSlots
\* (setLoading(true), availability query issued), unmount, or nothing.
Render(c, step, service, date, depsChanged) ==
  LET was  == Mounted(currentStep[c], selectedService[c], selectedDate[c])
      will == Mounted(step, service, date)
  IN IF will /\ (~was \/ depsChanged)
     THEN /\ Len(gen[c]) < MaxInFlight
          /\ timeSlots' = [timeSlots EXCEPT ![c] = IF was THEN @ ELSE <<>>]
          /\ ttLoading' = [ttLoading EXCEPT ![c] = TRUE]
          /\ gen' = [gen EXCEPT ![c] = Append(@, NewInvocation(Val(date), Val(service)))]
     ELSE IF was /\ ~will
     THEN /\ timeSlots' = [timeSlots EXCEPT ![c] = <<>>]
          /\ ttLoading' = [ttLoading EXCEPT ![c] = FALSE]
          /\ gen' = [gen EXCEPT ![c] = Orphaned(@)]
     ELSE UNCHANGED ttVars

ReadOutcomes == {"ok", "error", "throw"}

\* mutant: a run applies its result only when its date is still the selected one
FinishIfCurrent(c, i, slots, toastText, run) ==
  LET inv == gen[c][i]
  IN /\ gen' = [gen EXCEPT ![c] = RemoveAt(@, i)]
     /\ toast' = [toast EXCEPT ![c] = IF toastText = "" THEN @ ELSE toastText]
     /\ IF inv.live /\ selectedDate[c] = Some(inv.selectedDate)
        THEN /\ timeSlots' = [timeSlots EXCEPT ![c] = slots]
             /\ ttLoading' = [ttLoading EXCEPT ![c] = FALSE]
             /\ lastRun' = [lastRun EXCEPT ![c] = Some(run)]
        ELSE UNCHANGED <<timeSlots, ttLoading, lastRun>>

\* mutant: the finally block is missing, loading stays true
FinishKeepsLoading(c, i, slots, toastText, run) ==
  LET inv == gen[c][i]
  IN /\ gen' = [gen EXCEPT ![c] = RemoveAt(@, i)]
     /\ toast' = [toast EXCEPT ![c] = IF toastText = "" THEN @ ELSE toastText]
     /\ IF inv.live
        THEN /\ timeSlots' = [timeSlots EXCEPT ![c] = slots]
             /\ lastRun' = [lastRun EXCEPT ![c] = Some(run)]
             /\ UNCHANGED ttLoading
        ELSE UNCHANGED <<timeSlots, ttLoading, lastRun>>

\* mutant: a run adds its slots to the list already shown
FinishAppends(c, i, slots, toastText, run) ==
  LET inv == gen[c][i]
  IN /\ gen' = [gen EXCEPT ![c] = RemoveAt(@, i)]
     /\ toast' = [toast EXCEPT ![c] = IF toastText = "" THEN @ ELSE toastText]
     /\ IF inv.live
        THEN /\ timeSlots' = [timeSlots EXCEPT ![c] = @ \o slots]
             /\ ttLoading' = [ttLoading EXCEPT ![c] = FALSE]
             /\ lastRun' = [lastRun EXCEPT ![c] = Some(run)]
        ELSE UNCHANGED <<timeSlots, ttLoading, lastRun>>

\* An invocation ends: setTimeSlots(slots), finally setLoading(false); with a toast
\* when it failed. A run of an unmounted Timetable changes no state but the toast.
Finish(c, i, slots, toastText, run) ==
  LET inv == gen[c][i]
  IN /\ gen' = [gen EXCEPT ![c] = RemoveAt(@, i)]
     /\ toast' = [toast EXCEPT ![c] = IF toastText = "" THEN @ ELSE toastText]
     /\ IF inv.live
        THEN /\ timeSlots' = [timeSlots EXCEPT ![c] = slots]
             /\ ttLoading' = [ttLoading EXCEPT ![c] = FALSE]
             /\ lastRun' = [lastRun EXCEPT ![c] = Some(run)]
        ELSE UNCHANGED <<timeSlots, ttLoading, lastRun>>

\* history: how the run finished before this one in the session relates to it
AfterRun(c, inv) ==
  IF lastRun[c] = None THEN "none"
  ELSE IF /\ Val(lastRun[c]).selectedDate = inv.selectedDate
          /\ Val(lastRun[c]).selectedService = inv.selectedService
          /\ Val(lastRun[c]).availRead = "ok" /\ Val(lastRun[c]).apptRead = "ok"
       THEN "same"
       ELSE "other"

RunRecord(c, inv, availRead, apptRead, booked) ==
  [selectedDate |-> inv.selectedDate, selectedService |-> inv.selectedService,
   availRead |-> availRead, apptRead |-> apptRead, booked |-> booked,
   after |-> AfterRun(c, inv)]

\* the availability read returns (lines 100-120)
AvailabilityResponse(c, i, outcome) ==
  /\ i \in 1..Len(gen[c])
  /\ gen[c][i].pc = "avail"
  /\ LET inv == gen[c][i]
         dayOfWeek == DayToString(getDay(inv.selectedDate))
     IN CASE outcome = "ok" ->
               /\ gen' = [gen EXCEPT ![c][i].pc = "appt",
                                     ![c][i].availability = AvailabilityQuery(dayOfWeek)]
               /\ UNCHANGED <<timeSlots, ttLoading, toast, lastRun>>
          [] outcome = "error" ->
               Finish(c, i, <<>>, "Failed to fetch availability",
                      RunRecord(c, inv, "error", "none", {}))
          [] outcome = "throw" ->
               Finish(c, i, <<>>, "Failed to generate time slots",
                      RunRecord(c, inv, "throw", "none", {}))
  /\ UNCHANGED <<dbVars, now, empVars, pageVars>>

\* what `const { data: appointments } = await ...` leaves in appointmentsArr
AppointmentsArr(outcome, date) ==
  IF outcome = "ok" THEN AppointmentQuery(date) ELSE <<>>

\* the appointment read returns (lines 136-216)
AppointmentsResponse(c, i, outcome) ==
  /\ i \in 1..Len(gen[c])
  /\ gen[c][i].pc = "appt"
  /\ LET inv == gen[c][i]
         appointmentsArr == AppointmentsArr(outcome, inv.selectedDate)
     IN IF outcome = "throw"
        THEN Finish(c, i, <<>>, "Failed to generate time slots",
                    RunRecord(c, inv, "ok", "throw", {}))
        ELSE IF Diverges(eligibleEmployees(inv.availability, inv.selectedService),
                         serviceDuration(inv.selectedService), now)
        THEN \* the invocation stays in the while loop and holds the session's thread
             /\ gen' = [gen EXCEPT ![c][i].pc = "loop"]
             /\ UNCHANGED <<timeSlots, ttLoading, toast, lastRun>>
        ELSE Finish(c, i,
                    ComputeSlots(inv.selectedDate, inv.selectedService, inv.availability,
                                 appointmentsArr, now),
                    "", RunRecord(c, inv, "ok", outcome, bookedSlots(appointmentsArr)))
  /\ UNCHANGED <<dbVars, now, empVars, pageVars>>

\* ------------------------------------------------------------------------
\* BookingPage: the wizard's handlers
\* ------------------------------------------------------------------------
ServiceTable ==
  { [serv_id |-> 1, serv_min_duration |-> 30, bus_id |-> 1],
    [serv_id |-> 2, serv_min_duration |-> 45, bus_id |-> 1] }

\* the route's bus_id of a session
BusOf(c) == 1

\* the days the Calendar lets the user click: not before today
SelectableDates == {now.date, now.date + 1}

handleServiceSelect(c, service) ==
  /\ currentStep[c] = "service"
  /\ selectedService' = [selectedService EXCEPT ![c] = Some(service)]
  /\ currentStep' = [currentStep EXCEPT ![c] = "datetime"]
  /\ Render(c, "datetime", Some(service), selectedDate[c], TRUE)
  /\ UNCHANGED <<dbVars, now, empVars, selectedDate, selectedSlot, customerData, loading, confirm,
                 toast, lastRun>>

handleDateSelect(c, date) ==
  /\ currentStep[c] = "datetime"
  /\ selectedService[c] # None
  /\ selectedDate' = [selectedDate EXCEPT ![c] = Some(date)]
  /\ Render(c, currentStep[c], selectedService[c], Some(date), TRUE)
  /\ UNCHANGED <<dbVars, now, empVars, currentStep, selectedService, selectedSlot, customerData,
                 loading, confirm, toast, lastRun>>

\* Timetable.handleSlotClick -> BookingPage.handleSlotSelect: the buttons are rendered
\* when the Timetable is not loading, and a disabled button takes no click
\* (SlotClickableAlways is the mutant without the available check)
SlotClickableAlways(slot) == TRUE

SlotClickable(slot) == slot.available

handleSlotClick(c, i) ==
  /\ Mounted(currentStep[c], selectedService[c], selectedDate[c])
  /\ ~ttLoading[c]
  /\ i \in 1..Len(timeSlots[c])
  /\ SlotClickable(timeSlots[c][i])
  /\ selectedSlot' = [selectedSlot EXCEPT ![c] = Some(timeSlots[c][i])]
  /\ currentStep' = [currentStep EXCEPT ![c] = "customer"]
  /\ Render(c, "customer", selectedService[c], selectedDate[c], FALSE)
  /\ UNCHANGED <<dbVars, now, empVars, selectedService, selectedDate, customerData, loading,
                 confirm, toast, lastRun>>

EmptyCustomerData == [firstName |-> "", lastName |-> "", email |-> "", phone |-> ""]

CustomerFields == {"firstName", "lastName", "email", "phone"}

\* the onChange handlers of the customer form
setCustomerData(c, field, value) ==
  /\ currentStep[c] = "customer"
  /\ customerData' = [customerData EXCEPT ![c][field] = value]
  /\ UNCHANGED <<dbVars, now, empVars, currentStep, selectedService, selectedDate, selectedSlot,
                 loading, confirm, ttVars, toast, lastRun>>

\* mutant: the customer form is accepted as it is
handleCustomerSubmitUnchecked(c) ==
  /\ currentStep[c] = "customer"
  /\ currentStep' = [currentStep EXCEPT ![c] = "confirmation"]
  /\ UNCHANGED <<dbVars, now, empVars, selectedService, selectedDate, selectedSlot, customerData,
                 loading, confirm, ttVars, toast, lastRun>>

handleCustomerSubmit(c) ==
  /\ currentStep[c] = "customer"
  /\ IF customerData[c].firstName = "" \/ customerData[c].email = ""
        \/ customerData[c].phone = ""
     THEN /\ toast' = [toast EXCEPT ![c] = "Missing Information"]
          /\ UNCHANGED currentStep
     ELSE /\ currentStep' = [currentStep EXCEPT ![c] = "confirmation"]
          /\ UNCHANGED toast
  /\ UNCHANGED <<dbVars, now, empVars, selectedService, selectedDate, selectedSlot, customerData,
                 loading, confirm, ttVars, lastRun>>

\* mutant: the appointment insert is issued first, without a customer insert
handleBookingConfirmAppointmentFirst(c) ==
  /\ currentStep[c] = "confirmation"
  /\ ~loading[c]
  /\ selectedService[c] # None /\ selectedDate[c] # None /\ selectedSlot[c] # None
  /\ loading' = [loading EXCEPT ![c] = TRUE]
  /\ confirm' = [confirm EXCEPT ![c] =
                   Some([pc |-> "appointment", selectedService |-> Val(selectedService[c]),
                         selectedDate |-> Val(selectedDate[c]),
                         selectedSlot |-> Val(selectedSlot[c]),
                         customerData |-> customerData[c]])]
  /\ UNCHANGED <<dbVars, now, empVars, currentStep, selectedService, selectedDate,
                 selectedSlot, customerData, ttVars, toast, lastRun>>

\* handleBookingConfirm up to its first await: the closure the later steps run with
handleBookingConfirm(c) ==
  /\ currentStep[c] = "confirmation"
  /\ ~loading[c]
  /\ selectedService[c] # None /\ selectedDate[c] # None /\ selectedSlot[c] # None
  /\ loading' = [loading EXCEPT ![c] = TRUE]
  /\ confirm' = [confirm EXCEPT ![c] =
                   Some([pc |-> "customer", selectedService |-> Val(selectedService[c]),
                         selectedDate |-> Val(selectedDate[c]),
                         selectedSlot |-> Val(selectedSlot[c]),
                         customerData |-> customerData[c]])]
  /\ UNCHANGED <<dbVars, now, empVars, currentStep, selectedService, selectedDate, selectedSlot,
                 customerData, ttVars, toast, lastRun>>

CustomerRow(data) ==
  [cust_fname |-> data.firstName, cust_lname |-> data.lastName,
   cust_email |-> data.email, cust_phone |-> data.phone]

\* selectedSlot.time.split(':').map(Number) and the 'YYYY-MM-DD HH:MM:00' string
formattedDateTime(date, time) ==
  [date |-> date, h |-> time[1] * 10 + time[2], m |-> time[3] * 10 + time[4],
   s |-> 0, off |-> 0]

AppointmentRow(c, cl) ==
  [app_datetime |-> formattedDateTime(cl.selectedDate, cl.selectedSlot.time),
   cust_phone |-> cl.customerData.phone, bus_id |-> BusOf(c),
   serv_id |-> cl.selectedService.serv_id, emp_id |-> cl.selectedSlot.employeeId]

\* mutant: an insert for an (employee, date-time) that is already booked adds nothing
InsertAppointmentUnique(rows, row) ==
  IF \E k \in 1..Len(rows) :
       rows[k].emp_id = row.emp_id /\ rows[k].app_datetime = row.app_datetime
  THEN rows
  ELSE Append(rows, row)

\* the store's insert into appointment: the table has no exclusivity constraint
InsertAppointment(rows, row) == Append(rows, row)

\* catch + finally of handleBookingConfirm
BookingFailed(c) ==
  /\ toast' = [toast EXCEPT ![c] = "Booking Failed"]
  /\ loading' = [loading EXCEPT ![c] = FALSE]
  /\ confirm' = [confirm EXCEPT ![c] = None]
  /\ UNCHANGED <<currentStep, selectedService, selectedDate, selectedSlot, customerData,
                 ttVars>>

\* the customer insert returns (lines 158-163); a returned error is not looked at
CustomerInsertResponse(c, outcome) ==
  /\ confirm[c] # None
  /\ Val(confirm[c]).pc = "customer"
  /\ CASE outcome = "ok" ->
            /\ Len(customer) < MaxCustomers
            /\ customer' = Append(customer, CustomerRow(Val(confirm[c]).customerData))
            /\ confirm' = [confirm EXCEPT ![c][1].pc = "appointment"]
            /\ UNCHANGED <<currentStep, selectedService, selectedDate, selectedSlot,
                           customerData, loading, ttVars, toast>>
       [] outcome = "error" ->
            /\ confirm' = [confirm EXCEPT ![c][1].pc = "appointment"]
            /\ UNCHANGED <<customer, currentStep, selectedService, selectedDate,
                           selectedSlot, customerData, loading, ttVars, toast>>
       [] outcome = "throw" ->
            /\ BookingFailed(c)
            /\ UNCHANGED customer
  /\ UNCHANGED <<employee, employee_service, employee_availability, appointment, now, empVars,
                 lastRun>>

\* the appointment insert returns (lines 176-206); a returned error is not looked at
AppointmentInsertResponse(c, outcome) ==
  /\ confirm[c] # None
  /\ Val(confirm[c]).pc = "appointment"
  /\ IF outcome = "throw"
     THEN /\ BookingFailed(c)
          /\ UNCHANGED appointment
     ELSE /\ IF outcome = "ok"
             THEN /\ Len(appointment) < MaxAppts
                  /\ appointment' = InsertAppointment(appointment,
                                                      AppointmentRow(c, Val(confirm[c])))
             ELSE UNCHANGED appointment
          /\ toast' = [toast EXCEPT ![c] = "Booking Confirmed!"]
          /\ currentStep' = [currentStep EXCEPT ![c] = "service"]
          /\ selectedService' = [selectedService EXCEPT ![c] = None]
          /\ selectedDate' = [selectedDate EXCEPT ![c] = None]
          /\ selectedSlot' = [selectedSlot EXCEPT ![c] = None]
          /\ customerData' = [customerData EXCEPT ![c] = EmptyCustomerData]
          /\ Render(c, "service", None, None, FALSE)
          /\ loading' = [loading EXCEPT ![c] = FALSE]
          /\ confirm' = [confirm EXCEPT ![c] = None]
  /\ UNCHANGED <<employee, employee_service, employee_availability, customer, now, empVars,
                 lastRun>>

\* mutant: Back from the date step also clears the date
goBackClearsDate(c) ==
  /\ currentStep[c] # "service"
  /\ CASE currentStep[c] = "datetime" ->
            /\ currentStep' = [currentStep EXCEPT ![c] = "service"]
            /\ selectedService' = [selectedService EXCEPT ![c] = None]
            /\ selectedDate' = [selectedDate EXCEPT ![c] = None]
            /\ Render(c, "service", None, None, FALSE)
            /\ UNCHANGED selectedSlot
       [] currentStep[c] = "customer" ->
            /\ currentStep' = [currentStep EXCEPT ![c] = "datetime"]
            /\ selectedSlot' = [selectedSlot EXCEPT ![c] = None]
            /\ Render(c, "datetime", selectedService[c], selectedDate[c], FALSE)
            /\ UNCHANGED <<selectedService, selectedDate>>
       [] currentStep[c] = "confirmation" ->
            /\ currentStep' = [currentStep EXCEPT ![c] = "customer"]
            /\ UNCHANGED <<selectedService, selectedDate, selectedSlot, ttVars>>
  /\ UNCHANGED <<dbVars, now, empVars, customerData, loading, confirm, toast, lastRun>>

\* mutant: Back from the customer step clears the service instead of the slot
goBackClearsService(c) ==
  /\ currentStep[c] # "service"
  /\ CASE currentStep[c] = "datetime" ->
            /\ currentStep' = [currentStep EXCEPT ![c] = "service"]
            /\ selectedService' = [selectedService EXCEPT ![c] = None]
            /\ Render(c, "service", None, selectedDate[c], FALSE)
            /\ UNCHANGED selectedSlot
       [] currentStep[c] = "customer" ->
            /\ currentStep' = [currentStep EXCEPT ![c] = "datetime"]
            /\ selectedService' = [selectedService EXCEPT ![c] = None]
            /\ Render(c, "datetime", None, selectedDate[c], FALSE)
            /\ UNCHANGED selectedSlot
       [] currentStep[c] = "confirmation" ->
            /\ currentStep' = [currentStep EXCEPT ![c] = "customer"]
            /\ UNCHANGED <<selectedService, selectedSlot, ttVars>>
  /\ UNCHANGED <<dbVars, now, empVars, selectedDate, customerData, loading, confirm, toast, lastRun>>

goBack(c) ==
  /\ currentStep[c] # "service"
  /\ CASE currentStep[c] = "datetime" ->
            /\ currentStep' = [currentStep EXCEPT ![c] = "service"]
            /\ selectedService' = [selectedService EXCEPT ![c] = None]
            /\ Render(c, "service", None, selectedDate[c], FALSE)
            /\ UNCHANGED selectedSlot
       [] currentStep[c] = "customer" ->
            /\ currentStep' = [currentStep EXCEPT ![c] = "datetime"]
            /\ selectedSlot' = [selectedSlot EXCEPT ![c] = None]
            /\ Render(c, "datetime", selectedService[c], selectedDate[c], FALSE)
            /\ UNCHANGED selectedService
       [] currentStep[c] = "confirmation" ->
            /\ currentStep' = [currentStep EXCEPT ![c] = "customer"]
            /\ UNCHANGED <<selectedService, selectedSlot, ttVars>>
  /\ UNCHANGED <<dbVars, now, empVars, selectedDate, customerData, loading, confirm, toast, lastRun>>

\* ------------------------------------------------------------------------
\* Employees page: the edit panel and handleUpdate (the owner's browser; its
\* toasts are those of session 2)
\*
\* A time text is the tuple of its tokens: a number is a two-digit group (groups
\* are separated by ':'), Sp a whitespace character, Junk any other character;
\* <<Null>> is null/undefined and <<>> the empty string.
\* ------------------------------------------------------------------------
Sp == -1
Junk == -2
Null == -3

\* !t
Falsy(t) == t = <<Null>> \/ t = <<>>

RECURSIVE trimStart(_)
trimStart(s) == IF s # <<>> /\ Head(s) = Sp THEN trimStart(Tail(s)) ELSE s

RECURSIVE trimEnd(_)
trimEnd(s) ==
  IF s # <<>> /\ s[Len(s)] = Sp THEN trimEnd(SubSeq(s, 1, Len(s) - 1)) ELSE s

\* String(t).trim()
trimText(t) == trimEnd(trimStart(t))

\* /^\d{2}:\d{2}$/.test(s)
IsHHmm(s) == Len(s) = 2 /\ s[1] >= 0 /\ s[2] >= 0

\* mutant: the seconds are not appended
fmtTimeForDbNoSeconds(t) == IF Falsy(t) THEN t ELSE trimText(t)

fmtTimeForDb(t) ==
  IF Falsy(t) THEN t
  ELSE LET s == trimText(t)
       IN IF IsHHmm(s) THEN s \o <<0>> ELSE s

\* s.match(/^(\d{2}:\d{2})/): the 'HH:mm' the text starts with, if any
fmtTimeForInput(t) ==
  IF Falsy(t) THEN <<>>
  ELSE LET s == trimText(t)
       IN IF Len(s) >= 2 /\ s[1] >= 0 /\ s[2] >= 0 THEN SubSeq(s, 1, 2) ELSE s

\* the availabilities of the edit panel: day and times in the form's shape
MapAvailability(a) ==
  [avail_day |-> normalizeDayIndex(a.avail_day),
   start_time |-> fmtTimeForInput(a.start_time), end_time |-> fmtTimeForInput(a.end_time)]

\* handleClickEmployee: read the employee with its availability rows and service
\* links, then setEditingEmployee({ ...data, availabilities, serviceIds });
\* pristine records that the form has not been edited since
handleClickEmployee(emp_id, outcome) ==
  /\ \E e \in employee : e.emp_id = emp_id
  /\ IF outcome = "ok"
     THEN LET rows == SelectSeq(employee_availability, LAMBDA a : a.emp_id = emp_id)
              e    == CHOOSE x \in employee : x.emp_id = emp_id
          IN /\ editingEmployee' =
                  Some([emp_id |-> emp_id, emp_fname |-> e.emp_fname,
                        emp_lname |-> e.emp_lname, employee_availability |-> rows,
                        employee_service |-> {x \in employee_service : x[1] = emp_id},
                        availabilities |-> [k \in 1..Len(rows) |-> MapAvailability(rows[k])],
                        serviceIds |-> {l[2] : l \in {x \in employee_service : x[1] = emp_id}},
                        pristine |-> TRUE])
             /\ UNCHANGED toast
     ELSE /\ toast' = [toast EXCEPT ![2] = "Failed to load employee details"]
          /\ UNCHANGED editingEmployee
  /\ UNCHANGED <<dbVars, now, pageVars, ttVars, updating, lastRun>>

\* the Cancel button of the edit panel
cancelEdit ==
  /\ editingEmployee # None
  /\ editingEmployee' = None
  /\ UNCHANGED <<dbVars, now, pageVars, ttVars, updating, toast, lastRun>>

\* the edit panel leaves everything but the form alone
EditFrame == UNCHANGED <<dbVars, now, pageVars, ttVars, updating, toast, lastRun>>

toggleEditingService(sid) ==
  /\ editingEmployee # None
  /\ editingEmployee' =
       [editingEmployee EXCEPT ![1].serviceIds =
          IF sid \in @ THEN @ \ {sid} ELSE @ \cup {sid}, ![1].pristine = FALSE]
  /\ EditFrame

\* the panel shows, per weekday index, the first availability of that day
DisplayedIndex(list, dayIdx) ==
  CHOOSE k \in 1..Len(list) :
    /\ list[k].avail_day = dayIdx
    /\ \A i \in 1..(k - 1) : list[i].avail_day # dayIdx

DayIndexes == {"0", "1", "2", "3", "4", "5", "6"}

\* onChange of a row's start / end <input type="time">
setAvailabilityTime(dayIdx, field, value) ==
  /\ editingEmployee # None
  /\ \E k \in 1..Len(Val(editingEmployee).availabilities) :
       Val(editingEmployee).availabilities[k].avail_day = dayIdx
  /\ LET idx == DisplayedIndex(Val(editingEmployee).availabilities, dayIdx)
     IN editingEmployee' =
          [editingEmployee EXCEPT ![1].availabilities[idx][field] = value,
                                  ![1].pristine = FALSE]
  /\ EditFrame

\* the Remove button of a row: drops every availability of that day
removeAvailability(dayIdx) ==
  /\ editingEmployee # None
  /\ \E k \in 1..Len(Val(editingEmployee).availabilities) :
       Val(editingEmployee).availabilities[k].avail_day = dayIdx
  /\ editingEmployee' =
       [editingEmployee EXCEPT
          ![1].availabilities = SelectSeq(@, LAMBDA a : a.avail_day # dayIdx),
          ![1].pristine = FALSE]
  /\ EditFrame

\* the Add availability button, with what the day select and the two time inputs
\* hold; a day already listed is disabled in the select
addAvailability(day, start, end) ==
  /\ editingEmployee # None
  /\ Len(Val(editingEmployee).availabilities) < MaxRows
  /\ \A k \in 1..Len(Val(editingEmployee).availabilities) :
       Val(editingEmployee).availabilities[k].avail_day # day
  /\ editingEmployee' =
       [editingEmployee EXCEPT
          ![1].availabilities =
             Append(@, [avail_day |-> day, start_time |-> start, end_time |-> end]),
          ![1].pristine = FALSE]
  /\ EditFrame

\* handleUpdate up to its first await: the closure holds the form as submitted
handleUpdate ==
  /\ editingEmployee # None
  /\ updating = None
  /\ updating' = Some([pc |-> "update", editingEmployee |-> Val(editingEmployee)])
  /\ UNCHANGED <<dbVars, now, pageVars, ttVars, editingEmployee, toast, lastRun>>

\* the employee_availability rows handleUpdate inserts
UpdateRows(ed) ==
  [k \in 1..Len(ed.availabilities) |->
     [emp_id |-> ed.emp_id, avail_day |-> ed.availabilities[k].avail_day,
      start_time |-> fmtTimeForDb(ed.availabilities[k].start_time),
      end_time |-> fmtTimeForDb(ed.availabilities[k].end_time)]]

\* the write handleUpdate issues after the write at pc has succeeded
NextWrite(pc, ed) ==
  CASE pc = "update"   -> "delAvail"
    [] pc = "delAvail" -> IF Len(ed.availabilities) > 0 THEN "insAvail" ELSE "delServ"
    [] pc = "insAvail" -> "delServ"
    [] pc = "delServ"  -> IF ed.serviceIds # {} THEN "insServ" ELSE "done"
    [] pc = "insServ"  -> "done"

\* the effect on the store of the write at pc
ApplyWrite(pc, ed) ==
  /\ employee' =
       IF pc = "update"
       THEN {IF e.emp_id = ed.emp_id
             THEN [e EXCEPT !.emp_fname = ed.emp_fname, !.emp_lname = ed.emp_lname]
             ELSE e : e \in employee}
       ELSE employee
  /\ employee_availability' =
       CASE pc = "delAvail" ->
              SelectSeq(employee_availability, LAMBDA a : a.emp_id # ed.emp_id)
         [] pc = "insAvail" -> employee_availability \o UpdateRows(ed)
         [] OTHER -> employee_availability
  /\ employee_service' =
       CASE pc = "delServ" -> {l \in employee_service : l[1] # ed.emp_id}
         [] pc = "insServ" ->
              employee_service \cup {<<ed.emp_id, sid>> : sid \in ed.serviceIds}
         [] OTHER -> employee_service

\* a write of handleUpdate returns: an error (returned or thrown) goes to the catch
\* block; after the last write the panel is closed
UpdateResponse(outcome) ==
  /\ updating # None
  /\ LET pc == Val(updating).pc
         ed == Val(updating).editingEmployee
     IN IF outcome = "ok"
        THEN /\ ApplyWrite(pc, ed)
             /\ IF NextWrite(pc, ed) = "done"
                THEN /\ updating' = None
                     /\ editingEmployee' = None
                     /\ toast' = [toast EXCEPT ![2] = "Employee updated"]
                ELSE /\ updating' = [updating EXCEPT ![1].pc = NextWrite(pc, ed)]
                     /\ UNCHANGED <<editingEmployee, toast>>
        ELSE /\ updating' = None
             /\ toast' = [toast EXCEPT ![2] = "Error"]
             /\ UNCHANGED <<employee, employee_availability, employee_service,
                            editingEmployee>>
  /\ UNCHANGED <<appointment, customer, now, pageVars, ttVars, lastRun>>

\* ------------------------------------------------------------------------
\* Initial states
\* ------------------------------------------------------------------------
SeqsUpTo(S, n) == UNION {[1..k -> S] : k \in 0..n}

T(h, m, sec) == <<h, m, sec>>

EmployeePool ==
  { [emp_id |-> 1, emp_fname |-> "Ann", emp_lname |-> "Lee"],
    [emp_id |-> 2, emp_fname |-> "Bob", emp_lname |-> "Roy"] }

\* employee 1 performs service 1 only, employee 2 performs both
LinkPool == { <<1, 1>>, <<2, 1>>, <<2, 2>> }

\* day 7 is a Sunday (7 % 7 = 0), day 8 the Monday after it
NowPool == { [date |-> 7, sec |-> 8 * 3600], [date |-> 7, sec |-> 9 * 3600 + 30] }

\* availability rows the store may hold: the weekday in each encoding, a row whose
\* employee the join does not find (emp_id 3), rows with an unparseable start_time
\* or end_time
RowPool ==
  { [emp_id |-> 1, avail_day |-> "0",      start_time |-> T(9, 0, 0),  end_time |-> T(10, 0, 0)],
    [emp_id |-> 2, avail_day |-> "0",      start_time |-> T(9, 0, 0),  end_time |-> T(11, 0, 0)],
    [emp_id |-> 1, avail_day |-> "7",      start_time |-> T(9, 0, 0),  end_time |-> T(10, 0, 0)],
    [emp_id |-> 2, avail_day |-> "Monday", start_time |-> T(9, 0, 0),  end_time |-> T(10, 0, 0)],
    [emp_id |-> 2, avail_day |-> "1",      start_time |-> T(9, 30, 0), end_time |-> T(10, 30, 0)],
    [emp_id |-> 3, avail_day |-> "0",      start_time |-> T(9, 0, 0),  end_time |-> T(10, 0, 0)],
    [emp_id |-> 1, avail_day |-> "0",      start_time |-> T(25, 0, 0), end_time |-> T(10, 0, 0)],
    [emp_id |-> 2, avail_day |-> "0",      start_time |-> T(9, 0, 0),  end_time |-> T(10, 60, 0)] }

Appt(date, h, m, sec, off, emp, bus) ==
  [app_datetime |-> [date |-> date, h |-> h, m |-> m, s |-> sec, off |-> off],
   cust_phone |-> "5", bus_id |-> bus, serv_id |-> 1, emp_id |-> emp]

\* appointments the store may hold: on the hour, with seconds, of another business
\* (employee 4 works there), and one whose stored value embeds a UTC offset that is
\* 30 minutes ahead of the browser's
ApptPool ==
  { Appt(7, 9, 0, 0, 0, 2, 1),
    Appt(8, 9, 30, 15, 0, 2, 1),
    Appt(7, 9, 30, 0, 0, 4, 2),
    Appt(7, 9, 30, 0, 30, 2, 1) }

InitSessions ==
  /\ currentStep = [c \in Sessions |-> "service"]
  /\ selectedService = [c \in Sessions |-> None]
  /\ selectedDate = [c \in Sessions |-> None]
  /\ selectedSlot = [c \in Sessions |-> None]
  /\ customerData = [c \in Sessions |-> EmptyCustomerData]
  /\ loading = [c \in Sessions |-> FALSE]
  /\ confirm = [c \in Sessions |-> None]
  /\ timeSlots = [c \in Sessions |-> <<>>]
  /\ ttLoading = [c \in Sessions |-> FALSE]
  /\ gen = [c \in Sessions |-> <<>>]
  /\ toast = [c \in Sessions |-> ""]
  /\ lastRun = [c \in Sessions |-> None]
  /\ editingEmployee = None
  /\ updating = None

\* ------------------------------------------------------------------------
\* SpecGen: one customer regenerating slots over every store content of the pools;
\* the customer waits for a generation to end before picking the next date
\* ------------------------------------------------------------------------
InitGen ==
  /\ employee = EmployeePool
  /\ employee_service = LinkPool
  /\ employee_availability \in SeqsUpTo(RowPool, MaxRows)
  /\ appointment \in SeqsUpTo(ApptPool, MaxAppts)
  /\ customer = <<>>
  /\ now \in NowPool
  /\ InitSessions

NextGen ==
  \/ \E s \in ServiceTable : handleServiceSelect(1, s)
  \/ \E d \in SelectableDates : gen[1] = <<>> /\ handleDateSelect(1, d)
  \/ \E i \in 1..MaxInFlight, o \in ReadOutcomes : AvailabilityResponse(1, i, o)
  \/ \E i \in 1..MaxInFlight, o \in ReadOutcomes : AppointmentsResponse(1, i, o)

SpecGen == InitGen /\ [][NextGen]_vars

\* ------------------------------------------------------------------------
\* A fixed schedule for the specifications of the wizard: employee 1 works on
\* Sundays 09:00-10:00, employee 2 on Mondays 09:30-10:30; it is Sunday 08:00
\* ------------------------------------------------------------------------
FieldValues == {"", "5"}

InitStore ==
  /\ employee = EmployeePool
  /\ employee_service = LinkPool
  /\ employee_availability =
       << [emp_id |-> 1, avail_day |-> "0", start_time |-> T(9, 0, 0), end_time |-> T(10, 0, 0)],
          [emp_id |-> 2, avail_day |-> "1", start_time |-> T(9, 30, 0), end_time |-> T(10, 30, 0)] >>
  /\ appointment = <<>>
  /\ customer = <<>>
  /\ now = [date |-> 7, sec |-> 8 * 3600]

\* ------------------------------------------------------------------------
\* SpecTimetable: one customer at the date step, changing the date while earlier
\* generations are in flight, leaving the step and coming back, with reads that
\* may fail
\* ------------------------------------------------------------------------
InitTimetable == InitStore /\ InitSessions

NextTimetable ==
  \/ \E s \in ServiceTable : handleServiceSelect(1, s)
  \/ \E d \in SelectableDates : handleDateSelect(1, d)
  \/ \E i \in 1..MaxInFlight, o \in ReadOutcomes : AvailabilityResponse(1, i, o)
  \/ \E i \in 1..MaxInFlight, o \in ReadOutcomes : AppointmentsResponse(1, i, o)
  \/ \E i \in 1..Len(timeSlots[1]) : handleSlotClick(1, i)
  \/ goBack(1)

SpecTimetable == InitTimetable /\ [][NextTimetable]_vars

\* ------------------------------------------------------------------------
\* SpecBook: two customers booking service 1 for today at the same business at the
\* same time; each waits for the slot list and fills in the required fields
\* ------------------------------------------------------------------------
InitBook == InitStore /\ InitSessions

\* what each customer types into the required fields
TypedBy(c) == IF c = 1 THEN "5" ELSE "6"

NextBook ==
  \E c \in Sessions :
    \/ \E s \in {x \in ServiceTable : x.serv_id = 1} : handleServiceSelect(c, s)
    \/ gen[c] = <<>> /\ handleDateSelect(c, now.date)
    \/ \E i \in 1..MaxInFlight : AvailabilityResponse(c, i, "ok")
    \/ \E i \in 1..MaxInFlight : AppointmentsResponse(c, i, "ok")
    \/ \E i \in 1..Len(timeSlots[c]) : handleSlotClick(c, i)
    \/ \E f \in {"firstName", "email", "phone"} : setCustomerData(c, f, TypedBy(c))
    \/ handleCustomerSubmit(c)
    \/ handleBookingConfirm(c)
    \/ \E o \in ReadOutcomes : CustomerInsertResponse(c, o)
    \/ \E o \in ReadOutcomes : AppointmentInsertResponse(c, o)

SpecBook == InitBook /\ [][NextBook]_vars

\* ------------------------------------------------------------------------
\* SpecEmployees: the owner opens employee 1 in the edit panel, edits a start time
\* and saves, waiting for a save to end before touching the panel again, over
\* stores that hold one row whose avail_day or start_time comes in any encoding
\* ------------------------------------------------------------------------
DayPool ==
  { "0", "1", "3", "6", "7", "8", "07", "08", "10", "Monday", "MONDAY", "monday",
    "Sunday", "Saturday", " 1", "Monday ", "xyz", " xyz ", "" }

DayRowPool ==
  { [emp_id |-> 1, avail_day |-> d, start_time |-> T(9, 0, 0), end_time |-> T(17, 0, 0)]
      : d \in DayPool }

\* the time texts a stored row may hold: 'HH:mm:ss', 'HH:mm', padded, with
\* trailing characters, unreadable, empty, null
TextPool ==
  { T(9, 0, 0), <<9, 0>>, <<Sp, 9, 0, 0, Sp>>, <<9, 0, Junk>>, <<Junk>>, <<>>, <<Null>> }

TextRowPool ==
  { [emp_id |-> 1, avail_day |-> "1", start_time |-> x, end_time |-> T(17, 0, 0)]
      : x \in TextPool }

\* what an <input type="time"> can hold: 'HH:mm', 'HH:mm:ss' when seconds were
\* entered, or nothing
TimeInputs == { <<10, 30>>, <<10, 30, 15>>, <<>> }

InitEmployees ==
  /\ employee = EmployeePool
  /\ employee_service = LinkPool
  /\ employee_availability \in SeqsUpTo(DayRowPool \cup TextRowPool, 1)
  /\ appointment = <<>>
  /\ customer = <<>>
  /\ now = [date |-> 7, sec |-> 8 * 3600]
  /\ InitSessions

NextEmployees ==
  \/ \E o \in {"ok", "error"} : updating = None /\ handleClickEmployee(1, o)
  \/ updating = None /\ cancelEdit
  \/ \E v \in TimeInputs : updating = None /\ setAvailabilityTime("1", "start_time", v)
  \/ handleUpdate
  \/ \E o \in ReadOutcomes : UpdateResponse(o)

SpecEmployees == InitEmployees /\ [][NextEmployees]_vars

\* ------------------------------------------------------------------------
\* SpecUpdate: the owner edits and saves employee 1 (its services and its
\* availability) while a customer generates the slots of today
\* ------------------------------------------------------------------------
InitUpdate == InitStore /\ InitSessions

NextUpdate ==
  \/ updating = None /\ handleClickEmployee(1, "ok")
  \/ updating = None /\ toggleEditingService(2)
  \/ updating = None /\ removeAvailability("0")
  \/ updating = None /\ addAvailability("2", <<9, 0>>, <<11, 0>>)
  \/ handleUpdate
  \/ \E o \in {"ok", "error"} : UpdateResponse(o)
  \/ \E s \in {x \in ServiceTable : x.serv_id = 1} : handleServiceSelect(1, s)
  \/ gen[1] = <<>> /\ handleDateSelect(1, now.date)
  \/ \E i \in 1..MaxInFlight : AvailabilityResponse(1, i, "ok")
  \/ \E i \in 1..MaxInFlight : AppointmentsResponse(1, i, "ok")

SpecUpdate == InitUpdate /\ [][NextUpdate]_vars

\* ------------------------------------------------------------------------
\* SpecDuration: the Timetable for a service as the create and edit forms store it
\* ------------------------------------------------------------------------
\* what a type="number" input can hold: a numeral, or "" (also for non-numeric text)
DurationInputs == {"30", "45", "0", "-30", ""}

\* Number(e.target.value)
Number(value) ==
  CASE value = "30" -> 30
    [] value = "45" -> 45
    [] value = "-30" -> 0 - 30
    [] value = "0" -> 0
    [] value = "" -> 0

\* setMinDuration(Number(e.target.value)), then the insert or update of the service
StorableServices ==
  { [serv_id |-> 1, serv_min_duration |-> Number(v), bus_id |-> 1] : v \in DurationInputs }

\* the session's thread is inside a generateTimeSlots loop: no handler of it runs
Blocked(c) == \E i \in 1..Len(gen[c]) : gen[c][i].pc = "loop"

InitDuration == InitStore /\ InitSessions

NextDuration ==
  \/ \E s \in StorableServices : ~Blocked(1) /\ handleServiceSelect(1, s)
  \/ \E d \in SelectableDates : ~Blocked(1) /\ handleDateSelect(1, d)
  \/ \E i \in 1..MaxInFlight, o \in ReadOutcomes :
       ~Blocked(1) /\ AvailabilityResponse(1, i, o)
  \/ \E i \in 1..MaxInFlight, o \in ReadOutcomes :
       ~Blocked(1) /\ AppointmentsResponse(1, i, o)
  \/ ~Blocked(1) /\ goBack(1)

SpecDuration == InitDuration /\ [][NextDuration]_vars

\* ------------------------------------------------------------------------
\* SpecWizard: one customer going through the whole wizard for today, forwards and
\* backwards, also while a confirmation is in flight, with fields left empty, an
\* appointment read that may return an error and inserts that may fail
\* ------------------------------------------------------------------------
InitWizard == InitStore /\ InitSessions

NextWizard ==
  \/ \E s \in {x \in ServiceTable : x.serv_id = 1} : handleServiceSelect(1, s)
  \/ gen[1] = <<>> /\ handleDateSelect(1, now.date)
  \/ \E i \in 1..MaxInFlight : AvailabilityResponse(1, i, "ok")
  \/ \E i \in 1..MaxInFlight, o \in {"ok", "error"} : AppointmentsResponse(1, i, o)
  \/ \E i \in 1..Len(timeSlots[1]) : handleSlotClick(1, i)
  \/ \E f \in {"firstName", "email", "phone"}, v \in FieldValues : setCustomerData(1, f, v)
  \/ handleCustomerSubmit(1)
  \/ handleBookingConfirm(1)
  \/ \E o \in ReadOutcomes : CustomerInsertResponse(1, o)
  \/ \E o \in ReadOutcomes : AppointmentInsertResponse(1, o)
  \/ goBack(1)

SpecWizard == InitWizard /\ [][NextWizard]_vars

\* ------------------------------------------------------------------------
\* Properties of generateTimeSlots (checked under SpecGen, where the store and
\* the clock do not change, so a finished run can be compared with its inputs)
\* ------------------------------------------------------------------------
RunOf(c) == Val(lastRun[c])

ReadsOk(c) ==
  lastRun[c] # None /\ RunOf(c).availRead = "ok" /\ RunOf(c).apptRead = "ok"

SlotsOf(c) == {timeSlots[c][i] : i \in 1..Len(timeSlots[c])}

\* seconds of the day of a stored 'HH:mm:ss' value and of an 'HH:mm' label
TimeSec(t)  == t[1] * 3600 + t[2] * 60 + t[3]
LabelSec(l) == (l[1] * 10 + l[2]) * 3600 + (l[3] * 10 + l[4]) * 60

ValidWindow(r) ==
  /\ ~isNaN(parse(r.start_time, 0)) /\ ~isNaN(parse(r.end_time, 0))
  /\ TimeSec(r.start_time) < TimeSec(r.end_time)

\* the stored rows whose avail_day denotes the weekday of the date, in any encoding
RowsDenoting(date) ==
  SelectSeq(employee_availability,
            LAMBDA r : normalizeDayIndex(r.avail_day) = DayToString(getDay(date)))

\* the eligible rows a run for (date, service) works on
EligibleRowsOf(c) ==
  eligibleEmployees(AvailabilityQuery(DayToString(getDay(RunOf(c).selectedDate))),
                    RunOf(c).selectedService)

\* C1: a single eligible row with window [s, e) and duration d yields exactly
\* floor((e - s) / d) slots, and every slot satisfies time + d <= e
C1_SlotCountIsFloor ==
  \A c \in Sessions :
    (ReadsOk(c) /\ Len(EligibleRowsOf(c)) = 1 /\ ValidWindow(EligibleRowsOf(c)[1])) =>
      LET row == EligibleRowsOf(c)[1]
          d   == serviceDuration(RunOf(c).selectedService) * 60
      IN /\ Len(timeSlots[c]) = (TimeSec(row.end_time) - TimeSec(row.start_time)) \div d
         /\ \A sl \in SlotsOf(c) : LabelSec(sl.time) + d <= TimeSec(row.end_time)

\* C4: a slot whose time is in the booked set of the run is never available
C4_BookedNeverAvailable ==
  \A c \in Sessions :
    lastRun[c] # None =>
      \A sl \in SlotsOf(c) : sl.time \in RunOf(c).booked => ~sl.available

\* C4 witness: a booked time offered by two employees, both slots unavailable
C4_Witness ==
  /\ ReadsOk(1)
  /\ \E a, b \in SlotsOf(1) :
       /\ a.time = b.time /\ a.employeeId # b.employeeId
       /\ a.time \in RunOf(1).booked
       /\ ~a.available /\ ~b.available
  /\ \E sl \in SlotsOf(1) : sl.available

SlotIsPast(c, sl) ==
  RunOf(c).selectedDate * SecPerDay + LabelSec(sl.time) < NowDate(now)

\* C5: a slot is made unavailable by bookings only if an appointment at its time
\* exists for its own employee
C5_BlockedOnlyByOwnEmployee ==
  \A c \in Sessions :
    ReadsOk(c) =>
      \A sl \in SlotsOf(c) :
        (~sl.available /\ ~SlotIsPast(c, sl)) =>
          \E k \in 1..Len(appointment) :
            /\ InDateRange(appointment[k].app_datetime, RunOf(c).selectedDate)
            /\ formatHHmm(NewDate(appointment[k].app_datetime)) = sl.time
            /\ appointment[k].emp_id = sl.employeeId

\* C6: today, a slot whose time of day is before the current moment is unavailable;
\* on a later date, a slot is available exactly when its time is not booked
C6_PastFiltering ==
  \A c \in Sessions :
    lastRun[c] # None =>
      \A sl \in SlotsOf(c) :
        /\ (RunOf(c).selectedDate = now.date /\ LabelSec(sl.time) < now.sec)
              => ~sl.available
        /\ RunOf(c).selectedDate > now.date
              => (sl.available <=> sl.time \notin RunOf(c).booked)

\* C6 witness: a run for today that shows a past, unbooked slot as unavailable
\* next to a later slot that is available
C6_Witness ==
  /\ ReadsOk(1)
  /\ RunOf(1).selectedDate = now.date
  /\ \E a, b \in SlotsOf(1) :
       /\ LabelSec(a.time) < now.sec /\ a.time \notin RunOf(1).booked /\ ~a.available
       /\ LabelSec(b.time) >= now.sec /\ b.available

\* C7: every slot's employee is linked to the selected service
C7_OnlyLinkedEmployees ==
  \A c \in Sessions :
    lastRun[c] # None =>
      \A sl \in SlotsOf(c) :
        <<sl.employeeId, RunOf(c).selectedService.serv_id>> \in employee_service

\* C7 witness: employee 1 has a row for the weekday, is not linked to the selected
\* service and has no slot, while the linked employee 2 has slots
C7_Witness ==
  /\ ReadsOk(1)
  /\ <<1, RunOf(1).selectedService.serv_id>> \notin employee_service
  /\ \E k \in 1..Len(employee_availability) :
       /\ employee_availability[k].emp_id = 1
       /\ employee_availability[k].avail_day = DayToString(getDay(RunOf(1).selectedDate))
       /\ ValidWindow(employee_availability[k])
  /\ \E sl \in SlotsOf(1) : sl.employeeId = 2
  /\ \A sl \in SlotsOf(1) : sl.employeeId # 1

\* C8: the availability read of a run returns every stored row whose avail_day
\* denotes the weekday of the date, whatever its encoding
C8_EveryEncodingMatched ==
  \A c \in Sessions : \A i \in 1..Len(gen[c]) :
    gen[c][i].pc = "appt" =>
      gen[c][i].availability = MapJoin(RowsDenoting(gen[c][i].selectedDate))

ErrorToasts == {"Failed to fetch availability", "Failed to generate time slots"}

\* C9: a run whose appointment read failed shows no slots and an error
C9_ApptFailureShowsNothing ==
  \A c \in Sessions :
    (lastRun[c] # None /\ RunOf(c).apptRead \in {"error", "throw"}) =>
      (timeSlots[c] = <<>> /\ toast[c] \in ErrorToasts)

\* C10: once a run whose availability read failed has ended, the Timetable shows an
\* error toast, no slots and loading = false, and a date change can start a new run
C10_AvailFailureRecoverable ==
  \A c \in Sessions :
    (/\ Mounted(currentStep[c], selectedService[c], selectedDate[c])
     /\ lastRun[c] # None /\ RunOf(c).availRead \in {"error", "throw"}
     /\ gen[c] = <<>>) =>
      /\ timeSlots[c] = <<>>
      /\ toast[c] \in ErrorToasts
      /\ ~ttLoading[c]
      /\ \A d \in SelectableDates : ENABLED handleDateSelect(c, d)

\* C10 witness: the availability read failed and the run has ended
C10_Witness ==
  /\ Mounted(currentStep[1], selectedService[1], selectedDate[1])
  /\ lastRun[1] # None /\ RunOf(1).availRead = "error" /\ gen[1] = <<>>
  /\ toast[1] = "Failed to fetch availability"
  /\ Len(employee_availability) > 0

\* ------------------------------------------------------------------------
\* Properties of the concurrent behaviour
\* ------------------------------------------------------------------------

\* C2: a confirmation is never refused because of what the appointment table holds:
\* with the wizard complete the confirm handler can run, and once its appointment
\* insert is in flight the store's acceptance appends the row, also next to a row
\* of the same employee and date-time
C2_ConfirmNeverRejected ==
  \A c \in Sessions :
    /\ (/\ currentStep[c] = "confirmation" /\ ~loading[c]
        /\ selectedService[c] # None /\ selectedDate[c] # None /\ selectedSlot[c] # None)
         => ENABLED handleBookingConfirm(c)
    /\ (/\ confirm[c] # None /\ Val(confirm[c]).pc = "appointment"
        /\ Len(appointment) < MaxAppts)
         => ENABLED (/\ AppointmentInsertResponse(c, "ok")
                     /\ appointment' = Append(appointment, AppointmentRow(c, Val(confirm[c]))))

\* C2 witness: both customers were told "Booking Confirmed!" and the table holds
\* one row of each for the same employee and date-time
C2_Witness ==
  /\ toast[1] = "Booking Confirmed!" /\ toast[2] = "Booking Confirmed!"
  /\ Len(appointment) = 2
  /\ appointment[1].cust_phone # appointment[2].cust_phone
  /\ appointment[1].emp_id = appointment[2].emp_id
  /\ appointment[1].app_datetime = appointment[2].app_datetime

\* a live invocation that has read the availability ends in this step
FinishesLive(c, i) ==
  /\ i \in 1..Len(gen[c])
  /\ gen[c][i].pc = "appt" /\ gen[c][i].live
  /\ gen'[c] = RemoveAt(gen[c], i)

\* C3: a run started for a date that is no longer the selected one still applies its
\* result when its response arrives: the list shown becomes that run's result while
\* the selected date stays the newer one
C3_StaleResponseOverwrites ==
  [][\A c \in Sessions : \A i \in 1..MaxInFlight :
       (FinishesLive(c, i) /\ selectedDate[c] # Some(gen[c][i].selectedDate)) =>
         /\ selectedDate'[c] = selectedDate[c]
         /\ lastRun'[c] # None
         /\ Val(lastRun'[c]).selectedDate = gen[c][i].selectedDate
         /\ timeSlots'[c] =
              IF Val(lastRun'[c]).apptRead = "throw" THEN <<>>
              ELSE ComputeSlots(gen[c][i].selectedDate, gen[c][i].selectedService,
                                gen[c][i].availability,
                                AppointmentsArr(Val(lastRun'[c]).apptRead,
                                                gen[c][i].selectedDate), now)]_vars

\* what a run for (date, service) returns from the store as it is now
FreshSlots(date, service) ==
  ComputeSlots(date, service, AvailabilityQuery(DayToString(getDay(date))),
               AppointmentQuery(date), now)

\* C3 witness: nothing is in flight, the selected date is D2, and the list shown is
\* the result of the run for D1, which differs from the result for D2
C3_Witness ==
  /\ Mounted(currentStep[1], selectedService[1], selectedDate[1])
  /\ gen[1] = <<>> /\ ~ttLoading[1]
  /\ ReadsOk(1)
  /\ RunOf(1).selectedDate # Val(selectedDate[1])
  /\ timeSlots[1] = FreshSlots(RunOf(1).selectedDate, Val(selectedService[1]))
  /\ timeSlots[1] # FreshSlots(Val(selectedDate[1]), Val(selectedService[1]))

\* ------------------------------------------------------------------------
\* Properties of the two writes of a confirmation (SpecBook)
\* ------------------------------------------------------------------------

\* C11: a confirmation issues the customer insert first and the appointment insert
\* only once the customer insert has returned, and a failed appointment insert
\* leaves the stored customer row in place
C11_CustomerThenAppointment ==
  [][\A c \in Sessions :
       /\ (confirm[c] = None /\ confirm'[c] # None) =>
            /\ Val(confirm'[c]).pc = "customer"
            /\ customer' = customer /\ appointment' = appointment
       /\ (confirm'[c] # None /\ Val(confirm'[c]).pc = "appointment"
             /\ confirm'[c] # confirm[c]) =>
            /\ confirm[c] # None /\ Val(confirm[c]).pc = "customer"
            /\ appointment' = appointment
       /\ (confirm[c] # None /\ Val(confirm[c]).pc = "appointment"
             /\ confirm'[c] = None /\ appointment' = appointment) =>
            customer' = customer
       /\ (appointment' # appointment /\ confirm'[c] # confirm[c]) =>
            /\ confirm[c] # None /\ Val(confirm[c]).pc = "appointment"
            /\ appointment' = Append(appointment, AppointmentRow(c, Val(confirm[c])))
            /\ customer' = customer]_vars

\* C11 witness: the first customer's row is stored, the appointment insert threw,
\* and the appointment table holds nothing
C11_Witness ==
  /\ toast[1] = "Booking Failed" /\ confirm[1] = None
  /\ currentStep[1] = "confirmation"
  /\ customer = <<CustomerRow(customerData[1])>>
  /\ appointment = <<>>

\* ------------------------------------------------------------------------
\* Further properties of generateTimeSlots (SpecGen)
\* ------------------------------------------------------------------------

\* the appointments of one business among those a run read
OfBusiness(rows, bus_id) == SelectSeq(rows, LAMBDA a : a.bus_id = bus_id)

\* C12: the slots of a run are those computed from the appointments of the business
\* being booked alone
C12_OtherBusinessIgnored ==
  \A c \in Sessions :
    ReadsOk(c) =>
      timeSlots[c] =
        ComputeSlots(RunOf(c).selectedDate, RunOf(c).selectedService,
                     AvailabilityQuery(DayToString(getDay(RunOf(c).selectedDate))),
                     OfBusiness(AppointmentQuery(RunOf(c).selectedDate), BusOf(c)), now)

\* a fetched row that has its employee and two parseable times
WellFormedRow(avail) ==
  /\ avail.employee # None
  /\ ~isNaN(parse(avail.start_time, 0)) /\ ~isNaN(parse(avail.end_time, 0))

\* C13: the list of a run equals the list computed from the same inputs with the
\* rows that lack an employee or a parseable start_time / end_time removed
C13_MalformedRowsSkipped ==
  \A c \in Sessions :
    ReadsOk(c) =>
      timeSlots[c] =
        ComputeSlots(RunOf(c).selectedDate, RunOf(c).selectedService,
                     SelectSeq(AvailabilityQuery(DayToString(getDay(RunOf(c).selectedDate))),
                               WellFormedRow),
                     AppointmentQuery(RunOf(c).selectedDate), now)

\* C13 witness: a run read a row of a linked employee with an unparseable time next
\* to a good row, and shows the good row's slots
C13_Witness ==
  /\ ReadsOk(1)
  /\ timeSlots[1] # <<>>
  /\ LET fetched == AvailabilityQuery(DayToString(getDay(RunOf(1).selectedDate)))
     IN \E k \in 1..Len(fetched) :
          /\ IsEligible(fetched[k], RunOf(1).selectedService)
          /\ isNaN(parse(fetched[k].start_time, 0))

\* C14: the (time, employee) pairs of a run, in order, are those of the same run
\* without appointments and with a clock before every slot; the appointments and
\* the clock decide the available flags only
C14_BookingsChangeOnlyFlags ==
  \A c \in Sessions :
    ReadsOk(c) =>
      LET bare == ComputeSlots(RunOf(c).selectedDate, RunOf(c).selectedService,
                               AvailabilityQuery(DayToString(getDay(RunOf(c).selectedDate))),
                               <<>>, [date |-> 0, sec |-> 0])
      IN /\ Len(timeSlots[c]) = Len(bare)
         /\ \A i \in 1..Len(bare) :
              /\ SlotKey(timeSlots[c][i]) = SlotKey(bare[i])
              /\ timeSlots[c][i].employeeName = bare[i].employeeName
              /\ bare[i].available
              /\ timeSlots[c][i].available <=>
                   (/\ timeSlots[c][i].time \notin RunOf(c).booked
                    /\ ~SlotIsPast(c, timeSlots[c][i]))

\* C14 witness: an employee's booked slot is listed as unavailable next to another
\* slot of the same employee that is available
C14_Witness ==
  /\ ReadsOk(1)
  /\ \E a, b \in SlotsOf(1) :
       /\ a.employeeId = b.employeeId
       /\ a.time \in RunOf(1).booked /\ ~a.available /\ ~SlotIsPast(1, a)
       /\ b.time \notin RunOf(1).booked /\ b.available

\* the slots of a run before de-duplication and sorting
RawSlotsOf(c) ==
  AllSlots(EligibleRowsOf(c), RunOf(c).selectedDate,
           serviceDuration(RunOf(c).selectedService), RunOf(c).booked, now)

\* C15: for a single eligible row with window [s, e) and duration d the slot times
\* are s, s + d, s + 2d, ..., exactly those s + k*d that are strictly before e
C15_SlotTimesAreTheGrid ==
  \A c \in Sessions :
    (ReadsOk(c) /\ Len(EligibleRowsOf(c)) = 1 /\ ValidWindow(EligibleRowsOf(c)[1])) =>
      LET row == EligibleRowsOf(c)[1]
          s   == TimeSec(row.start_time)
          e   == TimeSec(row.end_time)
          d   == serviceDuration(RunOf(c).selectedService) * 60
          n   == Len(timeSlots[c])
      IN /\ \A k \in 1..n : timeSlots[c][k].time = formatHHmm(s + (k - 1) * d)
         /\ \A k \in 1..n : s + (k - 1) * d < e
         /\ s + n * d >= e

\* C15 witness: 09:00:00-11:00:00 with a 30 minute service gives 09:00, 09:30,
\* 10:00, 10:30
C15_Witness ==
  /\ ReadsOk(1)
  /\ Len(EligibleRowsOf(1)) = 1
  /\ EligibleRowsOf(1)[1].start_time = T(9, 0, 0)
  /\ EligibleRowsOf(1)[1].end_time = T(11, 0, 0)
  /\ serviceDuration(RunOf(1).selectedService) = 30
  /\ [k \in 1..Len(timeSlots[1]) |-> timeSlots[1][k].time]
       = << <<0, 9, 0, 0>>, <<0, 9, 3, 0>>, <<1, 0, 0, 0>>, <<1, 0, 3, 0>> >>

C17_SortedByLabel ==
  \A c \in Sessions :
    \A i, j \in 1..Len(timeSlots[c]) :
      i < j => /\ localeCompare(timeSlots[c][i].time, timeSlots[c][j].time) <= 0
               /\ LabelSec(timeSlots[c][i].time) <= LabelSec(timeSlots[c][j].time)

\* C17 witness: the rows generated a later time before an earlier one
C17_Witness ==
  /\ ReadsOk(1)
  /\ \E i, j \in 1..Len(RawSlotsOf(1)) :
       /\ i < j
       /\ LabelSec(RawSlotsOf(1)[i].time) > LabelSec(RawSlotsOf(1)[j].time)
       /\ RawSlotsOf(1)[i].employeeId # RawSlotsOf(1)[j].employeeId
  /\ Len(timeSlots[1]) >= 3

\* C18: the list of a finished run is the one its date, service, the store and the
\* clock determine, whatever an earlier run left on display
C18_RunsAreIdempotent ==
  \A c \in Sessions :
    ReadsOk(c) =>
      timeSlots[c] = FreshSlots(RunOf(c).selectedDate, RunOf(c).selectedService)

\* C18 witness: a second run with the date and service of the run before it has
\* finished and shows a non-empty list
C18_Witness ==
  /\ ReadsOk(1)
  /\ RunOf(1).after = "same"
  /\ gen[1] = <<>>
  /\ timeSlots[1] # <<>>

\* the 'HH:mm' label of the wall-clock time written in a stored date-time
StoredLabel(dt) == <<dt.h \div 10, dt.h % 10, dt.m \div 10, dt.m % 10>>

\* C20: the booked set of a run holds the HH:mm of the stored wall-clock time of
\* every appointment of the date, whatever its seconds and its embedded offset
C20_BookedLabelIsStoredHHmm ==
  \A c \in Sessions :
    ReadsOk(c) =>
      LET read == AppointmentQuery(RunOf(c).selectedDate)
      IN /\ RunOf(c).booked = {StoredLabel(read[k].app_datetime) : k \in 1..Len(read)}
         /\ \A sl \in SlotsOf(c) :
              (\E k \in 1..Len(read) : StoredLabel(read[k].app_datetime) = sl.time)
                => ~sl.available

\* ------------------------------------------------------------------------
\* Properties of the Employees page (SpecEmployees)
\* ------------------------------------------------------------------------

\* the day normalisation as stated: 1..7 reduced mod 7, weekday names to their
\* index, anything else unchanged
StatedDayIndex(x) ==
  IF x \in DOMAIN NumericStrings /\ NumericStrings[x] \in 1..7
  THEN NumToString(NumericStrings[x] % 7)
  ELSE IF findWeekday(x) >= 0 THEN NumToString(findWeekday(x))
  ELSE x

\* C19: every day of a freshly loaded edit panel is the stated normalisation of the stored
\* avail_day, and normalising it again changes nothing
C19_NormalizeDayIndexAsStated ==
  (editingEmployee # None /\ Val(editingEmployee).pristine) =>
    \A k \in 1..Len(Val(editingEmployee).availabilities) :
      LET x == Val(editingEmployee).employee_availability[k].avail_day
          y == Val(editingEmployee).availabilities[k].avail_day
      IN y = StatedDayIndex(x) /\ normalizeDayIndex(y) = y

IsHHmmss(s) == Len(s) = 3 /\ s[1] >= 0 /\ s[2] >= 0 /\ s[3] >= 0

\* the time fields of an availability
TimeFields == {"start_time", "end_time"}

\* the edit panel holds what handleClickEmployee loaded
Loaded == editingEmployee # None /\ Val(editingEmployee).pristine

\* handleUpdate has inserted its rows and nothing has touched them since
Inserted == updating # None /\ Val(updating).pc \in {"delServ", "insServ"}

\* the stored rows of the employee being updated
StoredRowsOfUpdated ==
  SelectSeq(employee_availability,
            LAMBDA a : a.emp_id = Val(updating).editingEmployee.emp_id)

\* the two helpers as stated: 'HH:mm' gets ':00', 'HH:mm:ss' is cut to 'HH:mm',
\* null gives the empty string, anything else is passed through
StatedFmtTimeForDb(x) == IF IsHHmm(x) THEN x \o <<0>> ELSE x

StatedFmtTimeForInput(x) ==
  IF x = <<Null>> THEN <<>> ELSE IF IsHHmmss(x) THEN SubSeq(x, 1, 2) ELSE x

\* C21 as stated: every time of a freshly loaded panel and every time handleUpdate
\* stored is what the helpers as stated give, malformed texts being passed through
C21_FmtTimeAsStated ==
  /\ Loaded =>
       \A k \in 1..Len(Val(editingEmployee).availabilities) : \A f \in TimeFields :
         Val(editingEmployee).availabilities[k][f]
           = StatedFmtTimeForInput(Val(editingEmployee).employee_availability[k][f])
  /\ Inserted =>
       \A k \in 1..Len(StoredRowsOfUpdated) : \A f \in TimeFields :
         StoredRowsOfUpdated[k][f]
           = StatedFmtTimeForDb(Val(updating).editingEmployee.availabilities[k][f])

\* C21: fmtTimeForDb stores 'HH:mm' as 'HH:mm:00' and 'HH:mm:ss' as it is,
\* fmtTimeForInput shows 'HH:mm:ss' as 'HH:mm' and null as the empty string, a
\* stored 'HH:mm' value reads back as itself, and any other text gives a result
\* without failing: the text trimmed of surrounding whitespace, or for
\* fmtTimeForInput the 'HH:mm' it starts with
C21_FmtTimeRoundTrip ==
  /\ Loaded =>
       \A k \in 1..Len(Val(editingEmployee).availabilities) : \A f \in TimeFields :
         LET x == Val(editingEmployee).employee_availability[k][f]
             y == Val(editingEmployee).availabilities[k][f]
         IN /\ x = <<Null>> => y = <<>>
            /\ IsHHmmss(x) => y = SubSeq(x, 1, 2)
            /\ (x # <<Null>> /\ ~IsHHmmss(x)) =>
                 \/ y = trimText(x)
                 \/ Len(trimText(x)) > 2 /\ IsHHmm(y) /\ y = SubSeq(trimText(x), 1, 2)
  /\ Inserted =>
       \A k \in 1..Len(StoredRowsOfUpdated) : \A f \in TimeFields :
         LET x == Val(updating).editingEmployee.availabilities[k][f]
             z == StoredRowsOfUpdated[k][f]
         IN /\ IsHHmm(x) => (z = x \o <<0>> /\ fmtTimeForInput(z) = x)
            /\ IsHHmmss(x) => z = x
            /\ (~IsHHmm(x) /\ ~IsHHmmss(x)) => z = trimText(x)

\* C21 witness: the owner typed an 'HH:mm' start time, handleUpdate stored it with
\* ':00' appended, next to an end time loaded from 'HH:mm:ss'
C21_Witness ==
  /\ Inserted
  /\ Len(StoredRowsOfUpdated) = 1
  /\ Val(updating).editingEmployee.availabilities[1].start_time = <<10, 30>>
  /\ StoredRowsOfUpdated[1].start_time = <<10, 30, 0>>
  /\ StoredRowsOfUpdated[1].end_time = T(17, 0, 0)

\* ------------------------------------------------------------------------
\* Properties of the wizard (checked under SpecWizard and SpecBook)
\* ------------------------------------------------------------------------
\* the wizard state of session c is what it was
WizardIntact(c) ==
  /\ currentStep'[c] = currentStep[c]
  /\ selectedService'[c] = selectedService[c]
  /\ selectedDate'[c] = selectedDate[c]
  /\ selectedSlot'[c] = selectedSlot[c]
  /\ customerData'[c] = customerData[c]

\* the step in which an insert of session c's confirmation returns without having
\* stored its row: the store answered it with an error (returned or thrown)
InsertAnsweredWithError(c, pc) ==
  /\ confirm[c] # None
  /\ Val(confirm[c]).pc = pc
  /\ confirm'[c] # confirm[c]
  /\ customer' = customer
  /\ appointment' = appointment

\* C22: when the store answers the customer insert or the appointment insert of a
\* confirmation with an error, the confirmation ends there: 'Booking Failed' is the
\* toast and not 'Booking Confirmed!', the wizard state is left as it was, loading
\* is false again, and no later insert of that confirmation is issued
C22_InsertErrorReportsFailure ==
  [][\A c \in Sessions :
       (InsertAnsweredWithError(c, "customer") \/ InsertAnsweredWithError(c, "appointment"))
         => /\ toast'[c] = "Booking Failed"
            /\ WizardIntact(c)
            /\ ~loading'[c]
            /\ confirm'[c] = None]_vars

\* C23: generateTimeSlots terminates for every service duration the create and edit
\* forms can store (zero, negative and non-numeric input included): no invocation
\* stays in its slot loop, so each one returns and sets loading back to false
C23_SlotLoopTerminates ==
  \A c \in Sessions : \A i \in 1..Len(gen[c]) : gen[c][i].pc # "loop"

\* C24: once handleBookingConfirm has stored the appointment row for date D and
\* time t, every generateTimeSlots run for D that reads the store afterwards
\* shows no slot with time t as available
C24_BookedTimeNeverOfferedAgain ==
  [][\A c \in Sessions : \A i \in 1..MaxInFlight :
       FinishesLive(c, i) =>
         \A k \in 1..Len(appointment) :
           (appointment[k].bus_id = BusOf(c)
              /\ appointment[k].app_datetime.date = gen[c][i].selectedDate) =>
             \A j \in 1..Len(timeSlots'[c]) :
               timeSlots'[c][j].time = StoredLabel(appointment[k].app_datetime)
                 => ~timeSlots'[c][j].available]_vars

\* ------------------------------------------------------------------------
\* Properties of Employees.handleUpdate (checked under SpecUpdate)
\* ------------------------------------------------------------------------
\* the stored availability rows of an employee
StoredAvailabilityOf(rows, emp_id) == SelectSeq(rows, LAMBDA a : a.emp_id = emp_id)

\* some row of the list is for the weekday of the date
HasRowFor(rows, date) ==
  \E k \in 1..Len(rows) : rows[k].avail_day = DayToString(getDay(date))

\* C25: handleUpdate is all-or-nothing. When it fails, the employee's availability
\* rows and service links in the store are the ones the panel was loaded with; and
\* while it runs, a slot generation that reads the availability of a weekday the
\* employee has a row for both before and after the update gets a row of the employee
C25_UpdateAllOrNothing ==
  [][updating # None =>
       LET ed == Val(updating).editingEmployee
       IN /\ (updating' = None /\ editingEmployee' # None) =>
               /\ StoredAvailabilityOf(employee_availability', ed.emp_id)
                    = ed.employee_availability
               /\ {l \in employee_service' : l[1] = ed.emp_id} = ed.employee_service
          /\ \A c \in Sessions : \A i \in 1..Len(gen[c]) :
               ( /\ gen[c][i].pc = "avail"
                 /\ Len(gen'[c]) = Len(gen[c]) /\ gen'[c][i].pc = "appt"
                 /\ HasRowFor(ed.employee_availability, gen[c][i].selectedDate)
                 /\ HasRowFor(UpdateRows(ed), gen[c][i].selectedDate) )
               => \E k \in 1..Len(gen'[c][i].availability) :
                    /\ gen'[c][i].availability[k].employee # None
                    /\ Val(gen'[c][i].availability[k].employee).emp_id = ed.emp_id]_vars

\* C26: at every moment, in every session: at step 'datetime' a service is selected,
\* and at steps 'customer' and 'confirmation' a service, a date and a slot are
\* selected; also when Back is pressed while a confirmation is in flight
C26_StepImpliesSelections ==
  \A c \in Sessions :
    /\ currentStep[c] = "datetime" => selectedService[c] # None
    /\ currentStep[c] \in {"customer", "confirmation"} =>
         (selectedService[c] # None /\ selectedDate[c] # None /\ selectedSlot[c] # None)

\* C26 witness: Back was pressed twice while the confirmation is in flight: the
\* wizard is at the date step again, without a slot
C26_Witness ==
  /\ confirm[1] # None
  /\ currentStep[1] = "datetime"
  /\ selectedService[1] # None /\ selectedSlot[1] = None

\* a step of session c's goBack: the wizard moves to the step before, and it is
\* not the reset that ends a confirmation
GoBackStep(c, from, to) ==
  /\ currentStep[c] = from /\ currentStep'[c] = to
  /\ confirm'[c] = confirm[c]

\* C29: goBack moves one step back and clears one selection: from 'datetime' to
\* 'service' only selectedService, from 'customer' to 'datetime' only selectedSlot,
\* from 'confirmation' to 'customer' nothing; it never changes selectedDate or
\* customerData, and at 'service' no goBack step exists
C29_GoBackFrame ==
  [][\A c \in Sessions :
       /\ GoBackStep(c, "datetime", "service") =>
            /\ selectedService'[c] = None
            /\ selectedSlot'[c] = selectedSlot[c]
            /\ selectedDate'[c] = selectedDate[c] /\ customerData'[c] = customerData[c]
       /\ GoBackStep(c, "customer", "datetime") =>
            /\ selectedSlot'[c] = None
            /\ selectedService'[c] = selectedService[c]
            /\ selectedDate'[c] = selectedDate[c] /\ customerData'[c] = customerData[c]
       /\ GoBackStep(c, "confirmation", "customer") =>
            /\ selectedSlot'[c] = selectedSlot[c]
            /\ selectedService'[c] = selectedService[c]
            /\ selectedDate'[c] = selectedDate[c] /\ customerData'[c] = customerData[c]
       /\ (currentStep[c] = "service" /\ confirm'[c] = confirm[c]) =>
            currentStep'[c] \in {"service", "datetime"}]_vars

\* C29 witness: after Back from the date step the wizard is at 'service' without a
\* service and with the date and the typed customer data still there
C29_Witness ==
  /\ currentStep[1] = "service"
  /\ selectedService[1] = None
  /\ selectedDate[1] # None
  /\ customerData[1].phone # ""

\* the three fields handleCustomerSubmit requires
RequiredFilled(data) == data.firstName # "" /\ data.email # "" /\ data.phone # ""

\* C30: the wizard is at 'confirmation' only with firstName, email and phone
\* non-empty, a refused submit leaves it at 'customer', and no confirmation runs
\* and no customer or appointment row is stored with one of them empty
C30_ConfirmationNeedsRequiredFields ==
  \A c \in Sessions :
    /\ currentStep[c] = "confirmation" => RequiredFilled(customerData[c])
    /\ confirm[c] # None => RequiredFilled(Val(confirm[c]).customerData)
    /\ \A k \in 1..Len(customer) :
         customer[k].cust_fname # "" /\ customer[k].cust_email # ""
           /\ customer[k].cust_phone # ""
    /\ \A k \in 1..Len(appointment) : appointment[k].cust_phone # ""

\* C30 witness: a submit was refused, the fields were then filled, and the
\* confirmation has stored its customer row
C30_Witness ==
  /\ toast[1] = "Missing Information"
  /\ confirm[1] # None /\ Val(confirm[1]).pc = "appointment"
  /\ Len(customer) > 0

\* ------------------------------------------------------------------------
\* Properties of the Timetable's loading flag and slot buttons
\* ------------------------------------------------------------------------
\* C27: in the Timetable, loading is true whenever an invocation of
\* generateTimeSlots it started is still in flight, also when invocations overlap
C27_LoadingWhileInFlight ==
  \A c \in Sessions :
    (\E i \in 1..Len(gen[c]) : gen[c][i].live) => ttLoading[c]

\* the step in which session c selects a slot
SelectsSlot(c) == selectedSlot[c] = None /\ selectedSlot'[c] # None

\* the appointment rows of the business hold a booking at the date and label
BookedInStore(bus_id, date, label) ==
  \E k \in 1..Len(appointment) :
    /\ appointment[k].bus_id = bus_id
    /\ appointment[k].app_datetime.date = date
    /\ formatHHmm(NewDate(appointment[k].app_datetime)) = label

\* the slot's start on the date is before the clock
PastNow(date, label) ==
  setHours(date, label[1] * 10 + label[2], label[3] * 10 + label[4]) < NowDate(now)

\* C28 as stated: a slot is selected only when its available flag is true in the
\* displayed list, and at that moment it is neither past nor booked
C28_SelectedSlotNeitherPastNorBooked ==
  [][\A c \in Sessions :
       SelectsSlot(c) =>
         /\ \E i \in 1..Len(timeSlots[c]) :
              timeSlots[c][i] = Val(selectedSlot'[c]) /\ timeSlots[c][i].available
         /\ ~BookedInStore(BusOf(c), Val(selectedDate[c]), Val(selectedSlot'[c]).time)
         /\ ~PastNow(Val(selectedDate[c]), Val(selectedSlot'[c]).time)]_vars

\* C28: onSlotSelect is invoked only for a slot of the displayed list whose
\* available flag is true, and only while the list is displayed (not loading)
C28_OnlyAvailableSlotsSelected ==
  [][\A c \in Sessions :
       SelectsSlot(c) =>
         /\ ~ttLoading[c]
         /\ \E i \in 1..Len(timeSlots[c]) :
              timeSlots[c][i] = Val(selectedSlot'[c]) /\ timeSlots[c][i].available]_vars

\* C28 witness: session 2 has selected a slot while the store holds a booking, so
\* that its list may have shown a slot that was not available
C28_Witness ==
  /\ selectedSlot[2] # None /\ Val(selectedSlot[2]).available
  /\ Len(appointment) > 0

====
